---- MODULE Spec2Model ----
(***************************************************************************)
(* A model of the Tensor sessions of the hottbox tutorials:                *)
(*   1. "Multi-dimensional arrays and Tensor class" (unfold, fold,         *)
(*      mode_n_product, in place or as a new object);                      *)
(*   2. "Efficient representation of multidimensional arrays" (TensorCPD,  *)
(*      TensorTKD, their core and reconstruct).                            *)
(* An N-D array is a record [shape, data]: data is the flat row-major      *)
(* (C order) sequence of its elements, as numpy prints it.  Mode indices   *)
(* and element indices are 0-based as in the notebooks; TLA+ sequences are *)
(* 1-based, hence the +1 where a sequence is indexed.                      *)
(***************************************************************************)
EXTENDS Integers, Sequences, FiniteSets, TLC

\* Bounds of the model.
MaxOrder == 3
MaxDim == 2
MaxRows == 2
MaxCalls == 3

-----------------------------------------------------------------------------
(* numpy arrays *)

RECURSIVE Prod(_)
Prod(s) == IF s = <<>> THEN 1 ELSE Head(s) * Prod(Tail(s))

\* The flat row-major position of the multi-index idx in an array of shape shp.
RECURSIVE Ravel(_, _)
Ravel(idx, shp) ==
  IF idx = <<>> THEN 0
  ELSE Head(idx) * Prod(Tail(shp)) + Ravel(Tail(idx), Tail(shp))

\* The multi-index of the flat row-major position k in an array of shape shp.
RECURSIVE Unravel(_, _)
Unravel(k, shp) ==
  IF shp = <<>> THEN <<>>
  ELSE <<k \div Prod(Tail(shp))>> \o Unravel(k % Prod(Tail(shp)), Tail(shp))

\* s without its element at (0-based) position m.
Without(s, m) == [i \in 1..(Len(s) - 1) |-> IF i <= m THEN s[i] ELSE s[i + 1]]

\* s with x inserted at (0-based) position m.
InsertAt(s, m, x) ==
  [i \in 1..(Len(s) + 1) |-> IF i <= m THEN s[i] ELSE IF i = m + 1 THEN x ELSE s[i - 1]]

\* np.arange(off, off + Prod(shp)).reshape(shp)
arange(shp, off) == [shape |-> shp, data |-> [k \in 1..Prod(shp) |-> off + k - 1]]

\* array[idx] for a multi-index idx.
At(a, idx) == a.data[Ravel(idx, a.shape) + 1]

\* All multi-indices of an array of shape shp.
Indices(shp) == {Unravel(k, shp) : k \in 0..(Prod(shp) - 1)}

\* s in reverse order.
Reverse(s) == [i \in 1..Len(s) |-> s[Len(s) + 1 - i]]

\* np.dot with the last term of every inner product left out.
dot_short(A, B) ==
  [shape |-> <<A.shape[1], B.shape[2]>>,
   data |-> [k \in 1..(A.shape[1] * B.shape[2]) |->
              LET i == (k - 1) \div B.shape[2]
                  j == (k - 1) % B.shape[2]
                  RECURSIVE Sum(_)
                  Sum(l) == IF l = 0 THEN 0
                            ELSE At(A, <<i, l - 1>>) * At(B, <<l - 1, j>>) + Sum(l - 1)
              IN Sum(A.shape[2] - 1)]]

\* np.dot(A, B) of two matrices.
dot(A, B) ==
  [shape |-> <<A.shape[1], B.shape[2]>>,
   data |-> [k \in 1..(A.shape[1] * B.shape[2]) |->
              LET i == (k - 1) \div B.shape[2]
                  j == (k - 1) % B.shape[2]
                  RECURSIVE Sum(_)
                  Sum(l) == IF l = 0 THEN 0
                            ELSE At(A, <<i, l - 1>>) * At(B, <<l - 1, j>>) + Sum(l - 1)
              IN Sum(A.shape[2])]]

-----------------------------------------------------------------------------
(* The Tensor class of notebook 1 *)

\* An unfolding whose columns run through the remaining modes with the FIRST
\* remaining mode varying fastest (the column order of Kolda and Bader).
unfold_array_first_fastest(a, mode) ==
  LET rows == a.shape[mode + 1]
      rest == Without(a.shape, mode)
      cols == Prod(a.shape) \div rows
  IN [shape |-> <<rows, cols>>,
      data |-> [k \in 1..Prod(a.shape) |->
                 LET ridx == Reverse(Unravel((k - 1) % cols, Reverse(rest)))
                 IN At(a, InsertAt(ridx, mode, (k - 1) \div cols))]]

\* An unfolding that drops the row index: every row repeats the first one.
unfold_array_first_row(a, mode) ==
  LET rows == a.shape[mode + 1]
      moved == <<rows>> \o Without(a.shape, mode)
  IN [shape |-> <<rows, Prod(a.shape) \div rows>>,
      data |-> [k \in 1..Prod(a.shape) |->
                 LET pidx == Unravel(k - 1, moved)
                 IN At(a, InsertAt(Tail(pidx), mode, 0))]]

\* The mode-`mode` unfolding of an N-D array: the mode-`mode` fibers become the
\* columns of a matrix with shape[mode] rows; the mode is moved to the front
\* and the array is read out row-major.
unfold_array(a, mode) ==
  LET rows == a.shape[mode + 1]
      moved == <<rows>> \o Without(a.shape, mode)
  IN [shape |-> <<rows, Prod(a.shape) \div rows>>,
      data |-> [k \in 1..Prod(a.shape) |->
                 LET pidx == Unravel(k - 1, moved)
                 IN At(a, InsertAt(Tail(pidx), mode, Head(pidx)))]]

\* A fold that only reshapes the matrix to shp, without moving the mode back.
fold_array_reshape_only(m, mode, shp) == [shape |-> shp, data |-> m.data]

\* Folding of a mode-`mode` unfolding back to an N-D array of shape shp.
fold_array(m, mode, shp) ==
  [shape |-> shp,
   data |-> [k \in 1..Prod(shp) |->
              LET idx == Unravel(k - 1, shp)
              IN At(m, <<idx[mode + 1], Ravel(Without(idx, mode), Without(shp, mode))>>)]]

\* Tensor(array): a tensor in its original (folded) state.
Tensor(a) == [data |-> a.data, shape |-> a.shape, ft_shape |-> <<>>, umode |-> -1]

asArray(t) == [shape |-> t.shape, data |-> t.data]

IsFolded(t) == t.umode = -1

\* An unfold that records the shape only when the tensor is in its original
\* state: a second unfold keeps the shape the first one recorded.
unfold_first_record_kept(t, mode) ==
  LET u == unfold_array(asArray(t), mode)
  IN [data |-> u.data, shape |-> u.shape,
      ft_shape |-> IF IsFolded(t) THEN t.shape ELSE t.ft_shape, umode |-> mode]

\* The state of a tensor after unfold(mode): the data is the unfolding, and the
\* tensor remembers what fold() needs.
unfold(t, mode) ==
  LET u == unfold_array(asArray(t), mode)
  IN [data |-> u.data, shape |-> u.shape, ft_shape |-> t.shape, umode |-> mode]

\* The state of a tensor after fold(): reverts the unfolding.
fold(t) == Tensor(fold_array(asArray(t), t.umode, t.ft_shape))

\* A mode-n product that unfolds with the first remaining mode fastest and folds
\* with the last remaining mode fastest.
mode_n_product_mixed_orders(t, matrix, mode) ==
  LET new_shape == [t.shape EXCEPT ![mode + 1] = matrix.shape[1]]
  IN [data |-> [k \in 1..Prod(new_shape) |->
                 LET idx == Unravel(k - 1, new_shape)
                 IN At(dot(matrix, unfold_array_first_fastest([shape |-> t.shape, data |-> t.data], mode)),
                       <<idx[mode + 1], Ravel(Without(idx, mode), Without(new_shape, mode))>>)],
      shape |-> new_shape, ft_shape |-> <<>>, umode |-> -1]

\* A mode-n product that multiplies along the right mode and then leaves the
\* product's rows where the reshape put them (the mode is not moved back).
mode_n_product_not_moved_back(t, matrix, mode) ==
  LET new_shape == [t.shape EXCEPT ![mode + 1] = matrix.shape[1]]
  IN [data |-> dot(matrix, [shape |-> <<t.shape[mode + 1], Prod(t.shape) \div t.shape[mode + 1]>>,
                            data |-> [k \in 1..Prod(t.shape) |->
                                       LET pidx == Unravel(k - 1, <<t.shape[mode + 1]>> \o Without(t.shape, mode))
                                       IN t.data[Ravel(InsertAt(Tail(pidx), mode, Head(pidx)), t.shape) + 1]]]).data,
      shape |-> new_shape, ft_shape |-> <<>>, umode |-> -1]

\* A mode-n product that leaves the multiplied mode in front: the product of
\* the unfolding is reshaped without being folded.
mode_n_product_mode_in_front(t, matrix, mode) ==
  Tensor([shape |-> <<matrix.shape[1]>> \o Without(t.shape, mode),
          data |-> dot(matrix, unfold_array(asArray(t), mode)).data])

\* The state of a tensor after mode_n_product(matrix, mode):
\* Y_(n) = A X_(n), folded to the shape with shape[mode] = rows of A.
mode_n_product(t, matrix, mode) ==
  LET new_shape == [t.shape EXCEPT ![mode + 1] = matrix.shape[1]]
  IN Tensor(fold_array(dot(matrix, unfold_array(asArray(t), mode)), mode, new_shape))

\* The sum of the squared elements of data, as the number
\* s[1] * 10^8 + s[2] * 10^4 + s[3] with s[2], s[3] < 10^4: the sum is kept
\* exact where it exceeds the 32-bit integers of the model checker.
RECURSIVE sum_squares(_)
sum_squares(data) ==
  IF data = <<>> THEN <<0, 0, 0>>
  ELSE LET x == IF Head(data) < 0 THEN 0 - Head(data) ELSE Head(data)
           a == x \div 10000
           b == x % 10000
           s == sum_squares(Tail(data))
           c0 == s[3] + b * b
           c1 == s[2] + 2 * a * b + (c0 \div 10000)
       IN <<s[1] + a * a + (c1 \div 10000), c1 % 10000, c0 % 10000>>

\* tensor.frob_norm is sqrt(sum of squares); '{:.2f}'.format prints it as
\* n / 100 when n is the integer nearest to 100 * sqrt(s).
PrintsAs(s, n) ==
  /\ (2 * n - 1) * (2 * n - 1) <= 40000 * s
  /\ 40000 * s < (2 * n + 1) * (2 * n + 1)

-----------------------------------------------------------------------------
(* A notebook session on Tensor objects *)

VARIABLES
  heap,    \* the Tensor objects created so far: heap[o] is the state of object o
  trace,   \* trace[o]: the calls (without their inplace flag) that made heap[o]
  last,    \* the most recent call: receiver, arguments, returned object
  prev,    \* the call before it
  calls,   \* the number of calls made
  rep,     \* the TensorCPD / TensorTKD object of notebook 2 (NoRep in notebook 1)
  args     \* the representation the most recent constructor call asked for

vars == <<heap, trace, last, prev, calls, rep, args>>

NoMatrix == [shape |-> <<0, 0>>, data |-> <<>>]
NoTensor == [data |-> <<>>, shape |-> <<>>, ft_shape |-> <<>>, umode |-> -1]
NoCall == [op |-> "none", recv |-> 0, ret |-> 0, inplace |-> FALSE,
           mode |-> -1, matrix |-> NoMatrix, pre |-> NoTensor, err |-> "none"]
NoRep == [kind |-> "none", fmat |-> <<>>, core_values |-> <<>>, core |-> NoTensor]

\* The shapes of the input arrays: every order up to MaxOrder, every mode size
\* up to MaxDim.
RECURSIVE ShapesOfOrder(_)
ShapesOfOrder(n) ==
  IF n = 0 THEN {<<>>}
  ELSE {<<d>> \o s : d \in 1..MaxDim, s \in ShapesOfOrder(n - 1)}

Shapes == UNION {ShapesOfOrder(n) : n \in 1..MaxOrder}

\* array_3d = np.arange(24).reshape((2, 3, 4)), the array of every example.
array_3d == arange(<<2, 3, 4>>, 0)

InitArrays == {arange(shp, 0) : shp \in Shapes} \cup {array_3d}

\* A = np.arange(J_new * J).reshape(J_new, J), B likewise (cell In[16]).
NotebookMatrices == {arange(<<5, 3>>, 0), arange(<<6, 4>>, 0)}

\* The matrices offered to mode_n_product along a mode of size cols.
Matrices(cols) ==
  {arange(<<r, cols>>, 0) : r \in 1..MaxRows}
    \cup {M \in NotebookMatrices : M.shape[2] = cols}

Init ==
  /\ \E a \in InitArrays : heap = <<Tensor(a)>>
  /\ trace = <<(<<>>)>>
  /\ last = NoCall
  /\ prev = NoCall
  /\ calls = 0
  /\ rep = NoRep
  /\ args = NoRep

\* A method that ignores inplace=False and always works on the receiver.
TargetAlwaysSelf(o, inplace, nobjs) == o

\* A method that ignores the default and always works on a new object.
TargetAlwaysNew(o, inplace, nobjs) == nobjs + 1

\* The object a method works on and returns: the receiver itself by default,
\* a new object with inplace=False.
Target(o, inplace, nobjs) == IF inplace THEN o ELSE nobjs + 1

\* One method call on object o that leaves its target in state result.
Call(o, inplace, result, what) ==
  LET tgt == Target(o, inplace, Len(heap))
  IN /\ calls < MaxCalls
     /\ heap' = IF tgt > Len(heap) THEN Append(heap, result)
                ELSE [heap EXCEPT ![tgt] = result]
     /\ trace' = IF tgt > Len(heap) THEN Append(trace, Append(trace[o], what))
                 ELSE [trace EXCEPT ![tgt] = Append(trace[o], what)]
     /\ last' = [op |-> what.op, recv |-> o, ret |-> tgt, inplace |-> inplace,
                 mode |-> what.mode, matrix |-> what.matrix, pre |-> heap[o],
                 err |-> "none"]
     /\ prev' = last
     /\ calls' = calls + 1
     /\ rep' = rep
     /\ args' = args

\* tensor.unfold(mode=mode, inplace=inplace) on a tensor in its original state.
Unfold(o, mode, inplace) ==
  /\ IsFolded(heap[o])
  /\ mode \in 0..(Len(heap[o].shape) - 1)
  /\ Call(o, inplace, unfold(heap[o], mode),
          [op |-> "unfold", mode |-> mode, matrix |-> NoMatrix])

\* tensor.fold(inplace=inplace) on an unfolded tensor.
Fold(o, inplace) ==
  /\ ~IsFolded(heap[o])
  /\ Call(o, inplace, fold(heap[o]),
          [op |-> "fold", mode |-> -1, matrix |-> NoMatrix])

\* tensor.mode_n_product(matrix, mode=mode, inplace=inplace) on a tensor in its
\* original state, matrix with shape[mode] columns.
ModeNProduct(o, matrix, mode, inplace) ==
  /\ IsFolded(heap[o])
  /\ mode \in 0..(Len(heap[o].shape) - 1)
  /\ matrix.shape[2] = heap[o].shape[mode + 1]
  /\ Call(o, inplace, mode_n_product(heap[o], matrix, mode),
          [op |-> "mode_n_product", mode |-> mode, matrix |-> matrix])

UnfoldStep ==
  /\ calls < MaxCalls
  /\ \E o \in 1..Len(heap), inplace \in BOOLEAN :
       \E mode \in 0..(Len(heap[o].shape) - 1) : Unfold(o, mode, inplace)

FoldStep ==
  /\ calls < MaxCalls
  /\ \E o \in 1..Len(heap), inplace \in BOOLEAN : Fold(o, inplace)

ModeNProductStep ==
  /\ calls < MaxCalls
  /\ \E o \in 1..Len(heap), inplace \in BOOLEAN :
       \E mode \in 0..(Len(heap[o].shape) - 1) :
         \E matrix \in Matrices(heap[o].shape[mode + 1]) :
           ModeNProduct(o, matrix, mode, inplace)

Next == UnfoldStep \/ FoldStep \/ ModeNProductStep

Spec == Init /\ [][Next]_vars

-----------------------------------------------------------------------------
(* Notebook 1: claims *)

\* The state of the object the most recent call returned.
Returned == heap[last.ret]

\* The most recent call was made on the object the call before it returned
\* (the receiver itself for an in-place call): the two calls are chained.
Chained == last.op /= "none" /\ prev.op /= "none" /\ last.recv = prev.ret

\* C1: round-trip law. Folding the unfolding (along any valid mode) of a tensor
\* gives back the tensor's original N-D shape and every element value, for the
\* copying form (inplace=False twice) and for the in-place form alike.
C1_RoundTrip ==
  (Chained /\ prev.op = "unfold" /\ last.op = "fold")
    => /\ IsFolded(Returned)
       /\ Returned.shape = prev.pre.shape
       /\ Returned.data = prev.pre.data

\* Cells In[11]-In[13]: the 2x3x4 example is unfolded along mode 1 into a new
\* object whose data is laid out differently, and that object is folded into a
\* third one.
C1_Witness ==
  /\ Chained /\ prev.op = "unfold" /\ last.op = "fold"
  /\ ~prev.inplace /\ ~last.inplace
  /\ prev.pre = Tensor(array_3d) /\ prev.mode = 1
  /\ heap[prev.ret].data /= prev.pre.data
  /\ Returned.data = array_3d.data

\* The outputs of cells In[6], In[7] and In[8]: tensor_unfolded.data for
\* mode 0, 1 and 2 of the 2x3x4 example, row by row.
Out_6 == << <<0, 1, 2, 3, 4, 5, 6, 7, 8, 9, 10, 11>>,
            <<12, 13, 14, 15, 16, 17, 18, 19, 20, 21, 22, 23>> >>

Out_7 == << <<0, 1, 2, 3, 12, 13, 14, 15>>,
            <<4, 5, 6, 7, 16, 17, 18, 19>>,
            <<8, 9, 10, 11, 20, 21, 22, 23>> >>

Out_8 == << <<0, 4, 8, 12, 16, 20>>,
            <<1, 5, 9, 13, 17, 21>>,
            <<2, 6, 10, 14, 18, 22>>,
            <<3, 7, 11, 15, 19, 23>> >>

\* A printed 2-D array (a sequence of rows) as an array record.
RECURSIVE Flatten(_)
Flatten(rows) == IF rows = <<>> THEN <<>> ELSE Head(rows) \o Flatten(Tail(rows))

Printed(rows) == [shape |-> <<Len(rows), Len(rows[1])>>, data |-> Flatten(rows)]

\* C2: unfold(mode=m) gives a matrix with shape[m] rows and size/shape[m]
\* columns; row i holds the elements whose index along mode m is i, and the
\* columns run through the remaining modes in their original order, the last
\* one varying fastest. For the 2x3x4 example the three unfoldings are the
\* matrices the notebook prints.
C2_UnfoldLayout ==
  (last.op = "unfold")
    => LET X == asArray(last.pre)
           U == asArray(Returned)
           m == last.mode
       IN /\ U.shape = <<X.shape[m + 1], Prod(X.shape) \div X.shape[m + 1]>>
          /\ Len(U.data) = Prod(X.shape)
          /\ \A idx \in Indices(X.shape) :
               At(U, <<idx[m + 1], Ravel(Without(idx, m), Without(X.shape, m))>>)
                 = At(X, idx)
          /\ (X = array_3d /\ m = 0) => U = Printed(Out_6)
          /\ (X = array_3d /\ m = 1) => U = Printed(Out_7)
          /\ (X = array_3d /\ m = 2) => U = Printed(Out_8)

\* Cell In[8]: the 2x3x4 example unfolded along mode 2, first row
\* [0, 4, 8, 12, 16, 20].
C2_Witness ==
  /\ last.op = "unfold" /\ last.mode = 2 /\ last.pre = Tensor(array_3d)
  /\ Returned.shape = <<4, 6>>
  /\ SubSeq(Returned.data, 1, 6) = <<0, 4, 8, 12, 16, 20>>

\* Two chained mode-n products, the second on the result of the first.
TwoProducts == Chained /\ prev.op = "mode_n_product" /\ last.op = "mode_n_product"

\* C3: mode-n products along distinct modes commute. (X x_m A) x_n B and
\* (X x_n B) x_m A have the same shape and the same elements.
C3_Commute ==
  (TwoProducts /\ prev.mode /= last.mode)
    => LET Z == mode_n_product(mode_n_product(prev.pre, last.matrix, last.mode),
                               prev.matrix, prev.mode)
       IN /\ Returned.shape = Z.shape
          /\ Returned.data = Z.data

\* Cell In[17]: X of shape (2, 3, 4), A of shape (5, 3) along mode 1, then B of
\* shape (6, 4) along mode 2, each as a new object; the result has shape (2, 5, 6).
C3_Witness ==
  /\ TwoProducts /\ ~prev.inplace /\ ~last.inplace
  /\ prev.pre = Tensor(array_3d)
  /\ prev.mode = 1 /\ prev.matrix = arange(<<5, 3>>, 0)
  /\ last.mode = 2 /\ last.matrix = arange(<<6, 4>>, 0)
  /\ Returned.shape = <<2, 5, 6>>

\* C4: fusion law. Two mode-n products along the same mode, first A then B,
\* equal one mode-n product with the matrix product B.A (B on the left).
C4_Fusion ==
  (TwoProducts /\ prev.mode = last.mode)
    => LET W == mode_n_product(prev.pre, dot(last.matrix, prev.matrix), last.mode)
       IN /\ Returned.shape = W.shape
          /\ Returned.data = W.data

\* The 2x3x4 example times a 2x3 and then a 2x2 matrix along mode 1, where the
\* remaining modes have sizes 2 and 4 and the result is not all zero.
C4_Witness ==
  /\ TwoProducts /\ prev.mode = 1 /\ last.mode = 1
  /\ prev.pre = Tensor(array_3d)
  /\ prev.matrix.shape = <<2, 3>> /\ last.matrix.shape = <<2, 2>>
  /\ Returned.shape = <<2, 2, 4>>
  /\ \E k \in 1..Len(Returned.data) : Returned.data[k] /= 0

\* The sum over k of A[j, k] * X[idx with k at mode m].
RECURSIVE FiberSum(_, _, _, _, _)
FiberSum(A, X, idx, m, k) ==
  IF k = 0 THEN 0
  ELSE At(A, <<idx[m + 1], k - 1>>) * At(X, [idx EXCEPT ![m + 1] = k - 1])
         + FiberSum(A, X, idx, m, k - 1)

C6_NewObject ==
  [][/\ ~last'.inplace =>
          /\ Len(heap') = Len(heap) + 1
          /\ last'.ret = Len(heap') /\ last'.ret /= last'.recv
          /\ \A p \in 1..Len(heap) : heap'[p] = heap[p]
          /\ heap'[last'.recv] = last'.pre
     /\ last'.inplace =>
          /\ Len(heap') = Len(heap)
          /\ \A p \in 1..Len(heap) : p /= last'.recv => heap'[p] = heap[p]]_vars

\* Cells In[8]-In[10]: a call with inplace=False returned a new object, and
\* then the receiver was changed in place; the two objects are different
\* objects, and the one returned first is what it was.
C6_Witness ==
  /\ prev.op /= "none" /\ ~prev.inplace
  /\ last.inplace /\ last.recv = prev.recv /\ last.recv /= prev.ret
  /\ heap[last.recv] /= last.pre
  /\ heap[prev.ret] = unfold(Tensor(array_3d), 2)

C16_FrobNorm ==
  /\ last.op \in {"unfold", "fold"}
       => sum_squares(Returned.data) = sum_squares(last.pre.data)
  /\ (Chained /\ prev.op = "unfold" /\ last.op = "fold")
       => sum_squares(Returned.data) = sum_squares(prev.pre.data)
  /\ (last.op = "unfold" /\ last.pre = Tensor(array_3d))
       => /\ sum_squares(Returned.data) = <<0, 0, 4324>>
          /\ PrintsAs(4324, 6576)

\* The 2x3x4 example is unfolded in place along mode 1, which moves its
\* elements, and its norm is still that of cell In[3].
C16_Witness ==
  /\ last.op = "unfold" /\ last.inplace /\ last.mode = 1
  /\ last.pre = Tensor(array_3d)
  /\ ~IsFolded(Returned) /\ Returned.data /= array_3d.data
  /\ sum_squares(Returned.data) = <<0, 0, 4324>>

-----------------------------------------------------------------------------
(* Notebook 2: TensorCPD and TensorTKD *)

MaxRank == 2

\* tensor_cpd = TensorCPD(fmat=[A, B, C], core_values=values)
TensorCPD(fmat, core_values) ==
  [kind |-> "cpd", fmat |-> fmat, core_values |-> core_values, core |-> NoTensor]

\* tensor_tkd = TensorTKD(fmat=[A, B, C], core=core_tensor)
TensorTKD(fmat, core_tensor) ==
  [kind |-> "tkd", fmat |-> fmat, core_values |-> <<>>, core |-> core_tensor]

\* An array of zeros with values[r] written at flat position r * stride.
RECURSIVE PutDiagonal(_, _, _, _)
PutDiagonal(data, values, stride, r) ==
  IF r = 0 THEN data
  ELSE PutDiagonal([data EXCEPT ![(r - 1) * stride + 1] = values[r]], values, stride, r - 1)

\* The stride between two super-diagonal entries of an array of the given
\* order with every mode of size R: R^(order-1) + ... + R + 1.
RECURSIVE DiagStride(_, _)
DiagStride(R, order) == IF order = 0 THEN 0 ELSE 1 + R * DiagStride(R, order - 1)

\* A core whose values are written with the stride of a matrix diagonal,
\* whatever the order.
super_diag_tensor_matrix_stride(order, values) ==
  LET R == Len(values)
      shp == [n \in 1..order |-> R]
  IN Tensor([shape |-> shp,
             data |-> PutDiagonal([k \in 1..Prod(shp) |-> 0], values,
                                  IF order = 1 THEN 1 ELSE R + 1, R)])

\* The core of a CP representation: zeros, with the values placed on the
\* super-diagonal.
super_diag_tensor(order, values) ==
  LET R == Len(values)
      shp == [n \in 1..order |-> R]
  IN Tensor([shape |-> shp,
             data |-> PutDiagonal([k \in 1..Prod(shp) |-> 0], values,
                                  DiagStride(R, order), R)])

\* tensor_cpd.core
core(r) ==
  IF r.kind = "cpd" THEN super_diag_tensor(Len(r.fmat), r.core_values) ELSE r.core

\* core x_1 fmat[1] x_2 fmat[2] ... : the products of modes n+1, n+2, ...
\* applied to t.
RECURSIVE Products(_, _, _, _)
Products(t, fmat, n, upto) ==
  IF n >= upto THEN t
  ELSE Products(mode_n_product(t, fmat[n + 1], n), fmat, n + 1, upto)

\* A reconstruction that leaves out the first factor matrix.
reconstruct_without_first(r) ==
  IF Len(r.fmat) > 1 THEN Products(core(r), r.fmat, 1, Len(r.fmat)) ELSE core(r)

\* A reconstruction that leaves out the last factor matrix.
reconstruct_without_last(r) == Products(core(r), r.fmat, 0, Len(r.fmat) - 1)

\* tensor_cpd.reconstruct, tensor_tkd.reconstruct: the full tensor,
\* core x_1 A x_2 B x_3 C.
reconstruct(r) == Products(core(r), r.fmat, 0, Len(r.fmat))

\* The factor matrices of the inputs: mode n (0-based) gets
\* np.arange(...).reshape(rows[n], cols[n]) + n, so that the matrices of two
\* modes differ also where their shapes agree.
Factors(rows, cols) == [n \in 1..Len(rows) |-> arange(<<rows[n], cols[n]>>, n - 1)]

\* Cell In[2] of notebook 2: A, B, C of shape 2x4, 4x4, 5x4, values 0..3.
notebook_cpd ==
  TensorCPD(<<arange(<<2, 4>>, 0), arange(<<4, 4>>, 0), arange(<<5, 4>>, 0)>>,
            arange(<<4>>, 0).data)

\* Cell In[5] of notebook 2: A, B, C of shape 5x2, 6x3, 7x4, core 0..23 of
\* shape (2, 3, 4).
notebook_tkd ==
  TensorTKD(<<arange(<<5, 2>>, 0), arange(<<6, 3>>, 0), arange(<<7, 4>>, 0)>>,
            Tensor(arange(<<2, 3, 4>>, 0)))

\* CP forms of every rank up to MaxRank, with the weights 1..R (none is zero),
\* and the notebook's example.
CPDInputs ==
  {TensorCPD(Factors(rows, [n \in 1..Len(rows) |-> R]), arange(<<R>>, 1).data) :
     rows \in Shapes, R \in 1..MaxRank}
    \cup {notebook_cpd}

\* Tucker forms with multi-linear rank (R1, ..., RN), Rn <= In and Rn <= MaxRank,
\* and the notebook's example.
TKDInputs ==
  UNION {{TensorTKD(Factors(rows, ranks), Tensor(arange(ranks, 0))) :
            ranks \in {s \in Shapes : Len(s) = Len(rows) /\ \A n \in 1..Len(s) : s[n] <= MaxRank /\ s[n] <= rows[n]}} :
         rows \in Shapes}
    \cup {notebook_tkd}

InitRep ==
  /\ rep \in CPDInputs \cup TKDInputs
  /\ args = NoRep
  /\ heap = <<>>
  /\ trace = <<>>
  /\ last = NoCall
  /\ prev = NoCall
  /\ calls = 0

\* A property that works in place on the stored core: the tensor it returns
\* is the representation's core from then on.
GetInPlace(what, result) ==
  /\ calls < MaxCalls
  /\ heap' = Append(heap, result)
  /\ trace' = Append(trace, <<>>)
  /\ last' = [op |-> what, recv |-> 0, ret |-> Len(heap) + 1, inplace |-> FALSE,
              mode |-> -1, matrix |-> NoMatrix, pre |-> NoTensor, err |-> "none"]
  /\ prev' = last
  /\ calls' = calls + 1
  /\ rep' = [rep EXCEPT !.core = result]
  /\ args' = args

\* A property of the representation that returns a Tensor object.
Get(what, result) ==
  /\ calls < MaxCalls
  /\ heap' = Append(heap, result)
  /\ trace' = Append(trace, <<>>)
  /\ last' = [op |-> what, recv |-> 0, ret |-> Len(heap) + 1, inplace |-> FALSE,
              mode |-> -1, matrix |-> NoMatrix, pre |-> NoTensor, err |-> "none"]
  /\ prev' = last
  /\ calls' = calls + 1
  /\ rep' = rep
  /\ args' = args

\* tensor_cpd.core
Core == rep.kind = "cpd" /\ Get("core", core(rep))

\* tensor_cpd.reconstruct, tensor_tkd.reconstruct
Reconstruct == rep.kind /= "none" /\ Get("reconstruct", reconstruct(rep))

NextRep == Core \/ Reconstruct

SpecRep == InitRep /\ [][NextRep]_vars

-----------------------------------------------------------------------------
(* Notebook 2: claims *)

\* The outputs of notebook 2, in row-major order: tensor_cpd.core.data (cell
\* In[3]), tensor_full.data of the CP form (In[4]) and of the Tucker form (In[6]).
Out_core ==
  <<0, 0, 0, 0, 0, 0, 0, 0, 0, 0, 0, 0, 0, 0, 0, 0,
    0, 0, 0, 0, 0, 1, 0, 0, 0, 0, 0, 0, 0, 0, 0, 0,
    0, 0, 0, 0, 0, 0, 0, 0, 0, 0, 2, 0, 0, 0, 0, 0,
    0, 0, 0, 0, 0, 0, 0, 0, 0, 0, 0, 0, 0, 0, 0, 3>>
Out_cpd ==
  <<98, 242, 386, 530, 674,
    242, 610, 978, 1346, 1714,
    386, 978, 1570, 2162, 2754,
    530, 1346, 2162, 2978, 3794,
    242, 610, 978, 1346, 1714,
    610, 1586, 2562, 3538, 4514,
    978, 2562, 4146, 5730, 7314,
    1346, 3538, 5730, 7922, 10114>>
Out_tkd ==
  <<378, 1346, 2314, 3282, 4250, 5218, 6186,
    1368, 4856, 8344, 11832, 15320, 18808, 22296,
    2358, 8366, 14374, 20382, 26390, 32398, 38406,
    3348, 11876, 20404, 28932, 37460, 45988, 54516,
    4338, 15386, 26434, 37482, 48530, 59578, 70626,
    5328, 18896, 32464, 46032, 59600, 73168, 86736,
    1458, 5146, 8834, 12522, 16210, 19898, 23586,
    5112, 17944, 30776, 43608, 56440, 69272, 82104,
    8766, 30742, 52718, 74694, 96670, 118646, 140622,
    12420, 43540, 74660, 105780, 136900, 168020, 199140,
    16074, 56338, 96602, 136866, 177130, 217394, 257658,
    19728, 69136, 118544, 167952, 217360, 266768, 316176,
    2538, 8946, 15354, 21762, 28170, 34578, 40986,
    8856, 31032, 53208, 75384, 97560, 119736, 141912,
    15174, 53118, 91062, 129006, 166950, 204894, 242838,
    21492, 75204, 128916, 182628, 236340, 290052, 343764,
    27810, 97290, 166770, 236250, 305730, 375210, 444690,
    34128, 119376, 204624, 289872, 375120, 460368, 545616,
    3618, 12746, 21874, 31002, 40130, 49258, 58386,
    12600, 44120, 75640, 107160, 138680, 170200, 201720,
    21582, 75494, 129406, 183318, 237230, 291142, 345054,
    30564, 106868, 183172, 259476, 335780, 412084, 488388,
    39546, 138242, 236938, 335634, 434330, 533026, 631722,
    48528, 169616, 290704, 411792, 532880, 653968, 775056,
    4698, 16546, 28394, 40242, 52090, 63938, 75786,
    16344, 57208, 98072, 138936, 179800, 220664, 261528,
    27990, 97870, 167750, 237630, 307510, 377390, 447270,
    39636, 138532, 237428, 336324, 435220, 534116, 633012,
    51282, 179194, 307106, 435018, 562930, 690842, 818754,
    62928, 219856, 376784, 533712, 690640, 847568, 1004496>>

\* All entries of idx are equal.
OnDiagonal(idx) == \A n \in 1..Len(idx) : idx[n] = idx[1]

\* C8: the core of a CP representation of N factor matrices and R weights has
\* order N and shape (R, ..., R); its entry at (r, ..., r) is weights[r] and
\* every other entry is zero. The core of the notebook's example is the 4x4x4
\* array the notebook prints.
C8_Core ==
  (last.op = "core")
    => LET G == asArray(Returned)
           R == Len(rep.core_values)
       IN /\ IsFolded(Returned)
          /\ G.shape = [n \in 1..Len(rep.fmat) |-> R]
          /\ Len(G.data) = Prod(G.shape)
          /\ \A idx \in Indices(G.shape) :
               At(G, idx) = IF OnDiagonal(idx) THEN rep.core_values[idx[1] + 1] ELSE 0
          /\ rep = notebook_cpd => (G.shape = <<4, 4, 4>> /\ G.data = Out_core)

\* Cell In[3]: the core of the notebook's TensorCPD, with core[r, r, r] = r.
C8_Witness ==
  /\ last.op = "core" /\ rep = notebook_cpd
  /\ Returned.shape = <<4, 4, 4>>
  /\ \A r \in 0..3 : At(asArray(Returned), <<r, r, r>>) = r

\* The product over the modes n..N of fmat[n][idx[n], ridx[n]].
RECURSIVE FactorProduct(_, _, _, _)
FactorProduct(fmat, idx, ridx, n) ==
  IF n > Len(fmat) THEN 1
  ELSE At(fmat[n], <<idx[n], ridx[n]>>) * FactorProduct(fmat, idx, ridx, n + 1)

\* The sum over r = 0..R-1 of weights[r] * A1[i1, r] * ... * AN[iN, r].
RECURSIVE CPSum(_, _, _, _)
CPSum(fmat, weights, idx, R) ==
  IF R = 0 THEN 0
  ELSE weights[R] * FactorProduct(fmat, idx, [n \in 1..Len(fmat) |-> R - 1], 1)
         + CPSum(fmat, weights, idx, R - 1)

\* C9: reconstruct on a CP representation gives the tensor of shape
\* (rows(A1), ..., rows(AN)) whose entry at (i1, ..., iN) is the sum over r of
\* weights[r] * A1[i1, r] * ... * AN[iN, r]. For the notebook's example it is
\* the 2x4x5 array the notebook prints, with entry [0, 0, 0] = 98.
C9_ReconstructCPD ==
  (last.op = "reconstruct" /\ rep.kind = "cpd")
    => LET F == asArray(Returned)
       IN /\ IsFolded(Returned)
          /\ F.shape = [n \in 1..Len(rep.fmat) |-> rep.fmat[n].shape[1]]
          /\ Len(F.data) = Prod(F.shape)
          /\ \A idx \in Indices(F.shape) :
               At(F, idx) = CPSum(rep.fmat, rep.core_values, idx, Len(rep.core_values))
          /\ rep = notebook_cpd => (F.shape = <<2, 4, 5>> /\ F.data = Out_cpd)

\* Cell In[4]: the reconstruction of the notebook's TensorCPD.
C9_Witness ==
  /\ last.op = "reconstruct" /\ rep = notebook_cpd
  /\ Returned.shape = <<2, 4, 5>>
  /\ At(asArray(Returned), <<0, 0, 0>>) = 98

\* The sum over every index (r1, ..., rN) of the core G of
\* G[r1, ..., rN] * A1[i1, r1] * ... * AN[iN, rN].
RECURSIVE TuckerSum(_, _, _, _)
TuckerSum(fmat, G, idx, k) ==
  IF k = 0 THEN 0
  ELSE G.data[k] * FactorProduct(fmat, idx, Unravel(k - 1, G.shape), 1)
         + TuckerSum(fmat, G, idx, k - 1)

\* C10: reconstruct on a Tucker representation with core G and factor matrices
\* An of shape In x Rn gives G x_1 A1 ... x_N AN: shape (I1, ..., IN), entry at
\* (i1, ..., iN) the sum over (r1, ..., rN) of G[r1, ..., rN] * A1[i1, r1] *
\* ... * AN[iN, rN]. For the notebook's example it is the 5x6x7 array the
\* notebook prints, with entry [0, 0, 0] = 378.
C10_ReconstructTKD ==
  (last.op = "reconstruct" /\ rep.kind = "tkd")
    => LET F == asArray(Returned)
           G == asArray(rep.core)
       IN /\ IsFolded(Returned)
          /\ F.shape = [n \in 1..Len(rep.fmat) |-> rep.fmat[n].shape[1]]
          /\ Len(F.data) = Prod(F.shape)
          /\ \A idx \in Indices(F.shape) :
               At(F, idx) = TuckerSum(rep.fmat, G, idx, Len(G.data))
          /\ rep = notebook_tkd => (F.shape = <<5, 6, 7>> /\ F.data = Out_tkd)

\* Cell In[6]: the reconstruction of the notebook's TensorTKD.
C10_Witness ==
  /\ last.op = "reconstruct" /\ rep = notebook_tkd
  /\ Returned.shape = <<5, 6, 7>>
  /\ At(asArray(Returned), <<0, 0, 0>>) = 378

-----------------------------------------------------------------------------
(* The contract of the Tensor methods: calls the notebooks do not make *)

\* What a method call comes to: the error it raises ("none" when it returns)
\* and the state it leaves the tensor it worked on in.
Outcome(err, state) == [err |-> err, state |-> state]

\* Mode indices are 0 .. order - 1, the order being that of the current data.
ValidMode(t, mode) == mode \in 0..(Len(t.shape) - 1)

\* An unfold that takes mode -1 for the last mode, as numpy takes an axis.
unfold_checked_negative_wraps(t, mode) ==
  IF mode = -1 THEN Outcome("none", unfold(t, Len(t.shape) - 1))
  ELSE IF ~ValidMode(t, mode) THEN Outcome("InvalidModeError", t)
  ELSE Outcome("none", unfold(t, mode))

\* unfold(mode): the mode is validated before anything is changed; the
\* unfolding is taken from the current state of the tensor.
unfold_checked(t, mode) ==
  IF ~ValidMode(t, mode) THEN Outcome("InvalidModeError", t)
  ELSE Outcome("none", unfold(t, mode))

\* A fold that takes a tensor in its original state for a caller's error.
fold_checked_strict(t) ==
  IF IsFolded(t) THEN Outcome("NotUnfoldedError", t) ELSE Outcome("none", fold(t))

\* fold(): reverts the unfolding; a tensor in its original state is returned
\* unchanged.
fold_checked(t) == Outcome("none", IF IsFolded(t) THEN t ELSE fold(t))

\* A mode-n product that unfolds the tensor before it looks at the matrix and
\* raises from the multiplication.
mode_n_product_checked_late(t, matrix, mode) ==
  IF ~ValidMode(t, mode) THEN Outcome("InvalidModeError", t)
  ELSE IF matrix.shape[2] /= t.shape[mode + 1]
    THEN Outcome("DimensionMismatchError", unfold(t, mode))
  ELSE Outcome("none", mode_n_product(t, matrix, mode))

\* A mode-n product that puts a tensor that was unfolded back in the unfolded
\* state it found it in.
mode_n_product_checked_state_kept(t, matrix, mode) ==
  IF ~ValidMode(t, mode) THEN Outcome("InvalidModeError", t)
  ELSE IF matrix.shape[2] /= t.shape[mode + 1]
    THEN Outcome("DimensionMismatchError", t)
  ELSE IF IsFolded(t) THEN Outcome("none", mode_n_product(t, matrix, mode))
  ELSE Outcome("none", [mode_n_product(t, matrix, mode) EXCEPT
                          !.ft_shape = t.ft_shape, !.umode = t.umode])

\* mode_n_product(matrix, mode): mode and matrix are validated before anything
\* is changed; the product is taken of the current data and the result is in
\* the folded state.
mode_n_product_checked(t, matrix, mode) ==
  IF ~ValidMode(t, mode) THEN Outcome("InvalidModeError", t)
  ELSE IF matrix.shape[2] /= t.shape[mode + 1]
    THEN Outcome("DimensionMismatchError", t)
  ELSE Outcome("none", mode_n_product(t, matrix, mode))

\* A copy made from the data alone: the unfold state is not carried over.
copy_data_only(t) == Tensor(asArray(t))

\* tensor.copy(): a duplicate of the tensor.
copy(t) == t

\* A call that raises: nothing is returned; an in-place call leaves the
\* receiver in the state the method had brought it to.
Raise(o, inplace, out, what) ==
  /\ calls < MaxCalls
  /\ heap' = IF inplace THEN [heap EXCEPT ![o] = out.state] ELSE heap
  /\ trace' = trace
  /\ last' = [op |-> what.op, recv |-> o, ret |-> 0, inplace |-> inplace,
              mode |-> what.mode, matrix |-> what.matrix, pre |-> heap[o],
              err |-> out.err]
  /\ prev' = last
  /\ calls' = calls + 1
  /\ rep' = rep
  /\ args' = args

\* A method call on object o with outcome out.
Method(o, inplace, out, what) ==
  IF out.err = "none" THEN Call(o, inplace, out.state, what)
  ELSE Raise(o, inplace, out, what)

\* The matrices offered along mode `mode` of t: those that fit, one with a
\* column too many and, where there is one, one with a column too few.
MatricesFor(t, mode) ==
  IF ValidMode(t, mode)
    THEN LET cols == t.shape[mode + 1]
         IN Matrices(cols) \cup {arange(<<MaxRows, c>>, 0) : c \in {cols - 1, cols + 1} \ {0}}
  ELSE {arange(<<MaxRows, MaxDim>>, 0)}

\* The arrays of the sessions below: one of every order, every mode of size
\* MaxDim (a product with a matrix of fewer rows makes the sizes differ).
ContractArrays == {arange([n \in 1..N |-> MaxDim], 0) : N \in 1..MaxOrder}

InitContract ==
  /\ \E a \in ContractArrays : heap = <<Tensor(a)>>
  /\ trace = <<(<<>>)>>
  /\ last = NoCall
  /\ prev = NoCall
  /\ calls = 0
  /\ rep = NoRep
  /\ args = NoRep

UnfoldCall ==
  /\ calls < MaxCalls
  /\ \E o \in 1..Len(heap), inplace \in BOOLEAN :
       \E mode \in -1..Len(heap[o].shape) :
         Method(o, inplace, unfold_checked(heap[o], mode),
                [op |-> "unfold", mode |-> mode, matrix |-> NoMatrix])

FoldCall ==
  /\ calls < MaxCalls
  /\ \E o \in 1..Len(heap), inplace \in BOOLEAN :
       Method(o, inplace, fold_checked(heap[o]),
              [op |-> "fold", mode |-> -1, matrix |-> NoMatrix])

ModeNProductCall ==
  /\ calls < MaxCalls
  /\ \E o \in 1..Len(heap), inplace \in BOOLEAN :
       \E mode \in -1..Len(heap[o].shape) :
         \E matrix \in MatricesFor(heap[o], mode) :
           Method(o, inplace, mode_n_product_checked(heap[o], matrix, mode),
                  [op |-> "mode_n_product", mode |-> mode, matrix |-> matrix])

CopyCall ==
  /\ calls < MaxCalls
  /\ \E o \in 1..Len(heap) :
       Call(o, FALSE, copy(heap[o]), [op |-> "copy", mode |-> -1, matrix |-> NoMatrix])

NextContract == UnfoldCall \/ FoldCall \/ ModeNProductCall \/ CopyCall

SpecContract == InitContract /\ [][NextContract]_vars

-----------------------------------------------------------------------------
(* The contract: claims *)

\* The most recent call raised.
Raised == last.op /= "none" /\ last.err /= "none"

\* C13: unfold or mode_n_product with a mode index outside [0, order) fails
\* with InvalidModeError at the call itself: nothing is returned and the
\* receiver's data, shape and folded/unfolded state are what they were before
\* the call, for the in-place variant too.
C13_InvalidMode ==
  (last.op \in {"unfold", "mode_n_product"} /\ ~ValidMode(last.pre, last.mode))
    => /\ last.err = "InvalidModeError"
       /\ last.ret = 0
       /\ heap[last.recv] = last.pre

\* An unfold with mode -1 raised, and then an in-place mode_n_product with
\* mode = order raised on an unfolded tensor, which is still unfolded.
C13_Witness ==
  /\ prev.op = "unfold" /\ prev.mode = -1 /\ prev.err = "InvalidModeError"
  /\ last.op = "mode_n_product" /\ last.inplace
  /\ last.mode = Len(last.pre.shape) /\ last.err = "InvalidModeError"
  /\ ~IsFolded(last.pre) /\ heap[last.recv] = last.pre

\* C14: mode_n_product with a valid mode and a matrix whose column count is
\* not shape[mode] fails with DimensionMismatchError: nothing is returned and
\* the receiver's data, shape and state are what they were before the call; an
\* in-place call does not leave the tensor unfolded.
C14_DimensionMismatch ==
  (/\ last.op = "mode_n_product" /\ ValidMode(last.pre, last.mode)
   /\ last.matrix.shape[2] /= last.pre.shape[last.mode + 1])
    => /\ last.err = "DimensionMismatchError"
       /\ last.ret = 0
       /\ heap[last.recv] = last.pre
       /\ IsFolded(heap[last.recv]) = IsFolded(last.pre)

\* An in-place mode_n_product with a column too many raised on a tensor in its
\* original state of order above 1, and the tensor is still in that state.
C14_Witness ==
  /\ last.op = "mode_n_product" /\ last.inplace /\ last.err = "DimensionMismatchError"
  /\ IsFolded(last.pre) /\ Len(last.pre.shape) > 1
  /\ last.matrix.shape[2] = last.pre.shape[last.mode + 1] + 1
  /\ IsFolded(heap[last.recv]) /\ heap[last.recv] = last.pre

\* C15: copy() returns a new object equal to the original in data, shape and
\* unfold state, and the two are independent: an in-place call (successful or
\* not) changes no object but its receiver, so no sequence of in-place calls on
\* the copy changes the original, nor the other way round.
C15_Copy ==
  /\ [](last.op = "copy"
         => /\ last.ret /= last.recv
            /\ Returned = last.pre
            /\ heap[last.recv] = last.pre)
  /\ [](prev.op = "copy" /\ last.inplace
         => /\ last.recv = prev.ret => heap[prev.recv] = prev.pre
            /\ last.recv = prev.recv => heap[prev.ret] = prev.pre)
  /\ [][last'.inplace
          => \A o \in 1..Len(heap) : o /= last'.recv => heap'[o] = heap[o]]_vars

\* An unfolded tensor was copied and the copy folded in place: the copy is
\* back in the original state and the tensor it was copied from is unfolded.
C15_Witness ==
  /\ prev.op = "copy" /\ ~IsFolded(prev.pre)
  /\ last.op = "fold" /\ last.inplace /\ last.recv = prev.ret
  /\ IsFolded(heap[prev.ret]) /\ heap[prev.ret] /= prev.pre
  /\ heap[prev.recv] = prev.pre

\* C17: fold on a tensor in folded state (never unfolded, or folded back)
\* raises nothing and returns the tensor (the receiver in place, another
\* object with inplace=False) with data, shape and state unchanged; a second
\* fold after unfold and fold returns what the first returned.
C17_FoldFolded ==
  /\ (last.op = "fold" /\ IsFolded(last.pre))
       => /\ last.err = "none"
          /\ Returned = last.pre
          /\ heap[last.recv] = last.pre
          /\ last.inplace <=> last.ret = last.recv
  /\ (Chained /\ prev.op = "fold" /\ last.op = "fold")
       => /\ last.err = "none"
          /\ Returned = heap[prev.ret]
          /\ Returned = last.pre

\* unfold, fold, fold in place on one tensor of order above 1: the second fold
\* found the tensor folded back and left it so.
C17_Witness ==
  /\ Chained /\ prev.op = "fold" /\ last.op = "fold"
  /\ prev.inplace /\ last.inplace
  /\ ~IsFolded(prev.pre) /\ Len(prev.pre.ft_shape) > 1
  /\ IsFolded(last.pre) /\ Returned = last.pre

\* The size of a tensor: the number of elements its data holds.
size(t) == Len(t.data)

\* The order of a tensor: the number of modes of its data.
order(t) == Len(t.shape)

\* C19: in every state reached by successful or failing unfold, fold,
\* mode_n_product (in place or not) and copy calls, every tensor has
\* size = product of shape = number of elements of data and order =
\* len(shape) (2 when unfolded); unfold and fold leave the size as it was, a
\* successful mode_n_product replaces shape[mode] by the matrix's row count
\* and changes the size by that factor only, and a failing call changes
\* nothing.  The 2x3x4 example is of order 3 and has 24 elements (cell In[3]).
C19_Sizes ==
  /\ \A o \in 1..Len(heap) :
       /\ size(heap[o]) = Prod(heap[o].shape)
       /\ order(heap[o]) >= 1
       /\ ~IsFolded(heap[o]) => order(heap[o]) = 2
  /\ (last.op \in {"unfold", "fold"} /\ last.err = "none")
       => size(Returned) = size(last.pre)
  /\ (last.op = "mode_n_product" /\ last.err = "none")
       => /\ Returned.shape = [last.pre.shape EXCEPT ![last.mode + 1] = last.matrix.shape[1]]
          /\ order(Returned) = order(last.pre)
          /\ size(Returned) * last.pre.shape[last.mode + 1]
               = size(last.pre) * last.matrix.shape[1]
  /\ Raised => /\ size(heap[last.recv]) = size(last.pre)
               /\ heap[last.recv].shape = last.pre.shape
  /\ order(Tensor(array_3d)) = 3 /\ size(Tensor(array_3d)) = 24

\* A mode_n_product along mode 1 with a one-row matrix halved the size of a
\* tensor of order 3, after a call that raised.
C19_Witness ==
  /\ prev.op /= "none" /\ prev.err /= "none"
  /\ last.op = "mode_n_product" /\ last.err = "none" /\ last.mode = 1
  /\ order(last.pre) = 3 /\ last.matrix.shape[1] = 1
  /\ size(Returned) * last.pre.shape[2] = size(last.pre)
  /\ size(Returned) < size(last.pre)

C21_OneUnfoldState ==
  /\ (last.op = "unfold" /\ last.err = "none")
       => /\ Returned.ft_shape = last.pre.shape
          /\ Returned.umode = last.mode
          /\ asArray(Returned) = unfold_array(asArray(last.pre), last.mode)
  /\ (Chained /\ prev.op = "unfold" /\ last.op = "fold")
       => /\ last.err = "none"
          /\ IsFolded(Returned)
          /\ Returned.shape = prev.pre.shape
          /\ Returned.data = prev.pre.data
          /\ ~IsFolded(prev.pre) => order(Returned) = 2

\* A tensor of order 3, unfolded, was unfolded again along mode 1 and folded,
\* all in place: it is back in the 2-D shape of the first unfolding, which is
\* not the shape it had before the first unfold.
C21_Witness ==
  /\ Chained /\ prev.op = "unfold" /\ last.op = "fold"
  /\ prev.inplace /\ last.inplace /\ prev.mode = 1
  /\ ~IsFolded(prev.pre) /\ Len(prev.pre.ft_shape) = 3
  /\ heap[last.recv].shape = prev.pre.shape
  /\ heap[last.recv].shape /= prev.pre.ft_shape
  /\ last.pre.data /= prev.pre.data
  /\ IsFolded(heap[last.recv])

-----------------------------------------------------------------------------
(* Construction of the representations *)

\* TensorTT: the tensor train form, an ordered sequence of cores kept in
\* core_values.
TensorTT(cores) ==
  [kind |-> "tt", fmat |-> <<>>, core_values |-> cores, core |-> NoTensor]

\* A check of the first factor matrix only.
valid_cpd_first_only(r) == r.fmat[1].shape[2] = Len(r.core_values)

\* TensorCPD: all matrices have the same number of columns, equal to the
\* length of values.
valid_cpd(r) == \A n \in 1..Len(r.fmat) : r.fmat[n].shape[2] = Len(r.core_values)

\* TensorTKD: the factor matrix of mode n has as many columns as the core has
\* elements along mode n.
valid_tkd(r) ==
  /\ Len(r.fmat) = Len(r.core.shape)
  /\ \A n \in 1..Len(r.fmat) : r.fmat[n].shape[2] = r.core.shape[n]

\* A check of the boundary ranks and of the first pair of cores only.
valid_tt_first_pair(r) ==
  LET G == r.core_values
  IN /\ \A k \in 1..Len(G) : Len(G[k].shape) = 3
     /\ G[1].shape[1] = 1
     /\ G[Len(G)].shape[3] = 1
     /\ Len(G) > 1 => G[1].shape[3] = G[2].shape[1]

\* TensorTT: every core is 3-way, of shape (r_{k-1}, I_k, r_k), with
\* r_0 = r_N = 1 and adjacent cores agreeing on the rank they share.
valid_tt(r) ==
  LET G == r.core_values
  IN /\ \A k \in 1..Len(G) : Len(G[k].shape) = 3
     /\ G[1].shape[1] = 1
     /\ G[Len(G)].shape[3] = 1
     /\ \A k \in 1..(Len(G) - 1) : G[k].shape[3] = G[k + 1].shape[1]

\* The constructor's validation of what it is given.
Valid(r) ==
  IF r.kind = "cpd" THEN valid_cpd(r)
  ELSE IF r.kind = "tkd" THEN valid_tkd(r)
  ELSE valid_tt(r)

\* The error a constructor raises ("none" when the object is made).
construct(r) == IF Valid(r) THEN "none" ELSE "ShapeMismatchError"

\* Sequential contraction of the chain of cores: m is the (P x r) matrix of
\* the cores contracted so far, k the next core.
RECURSIVE Contract(_, _, _)
Contract(m, cores, k) ==
  IF k > Len(cores) THEN m
  ELSE LET G == cores[k]
           p == dot(m, [shape |-> <<G.shape[1], G.shape[2] * G.shape[3]>>, data |-> G.data])
       IN Contract([shape |-> <<m.shape[1] * G.shape[2], G.shape[3]>>, data |-> p.data],
                   cores, k + 1)

\* tensor_tt.reconstruct: the full tensor of shape (I_1, ..., I_N).
reconstruct_tt(r) ==
  LET G == r.core_values
  IN Tensor([shape |-> [k \in 1..Len(G) |-> G[k].shape[2]],
             data |-> Contract([shape |-> <<G[1].shape[2], G[1].shape[3]>>,
                                data |-> G[1].data], G, 2).data])

\* Column counts and ranks of the arguments: every combination up to MaxRank.
Ranks(N) == {s \in ShapesOfOrder(N) : \A n \in 1..N : s[n] <= MaxRank}

\* The note's example: values of length 4, B with 3 columns.
mismatched_cpd ==
  TensorCPD(<<arange(<<2, 4>>, 0), arange(<<4, 3>>, 0), arange(<<5, 4>>, 0)>>,
            arange(<<4>>, 0).data)

\* TensorCPD(fmat=..., core_values=...) with any column counts.
CPDArgs ==
  UNION {{TensorCPD(Factors(rows, cols), arange(<<R>>, 1).data) :
            cols \in Ranks(Len(rows)), R \in 1..MaxRank} : rows \in Shapes}
    \cup {notebook_cpd, mismatched_cpd}

\* TensorTKD(fmat=..., core=...) with any column counts and core shape.
TKDArgs ==
  UNION {{TensorTKD(Factors(rows, cols), Tensor(arange(ranks, 0))) :
            cols \in Ranks(Len(rows)), ranks \in Ranks(Len(rows))} : rows \in Shapes}
    \cup {notebook_tkd}

\* The shapes of the cores offered to TensorTT: 3-way with any ranks, and
\* 2-way.
CoreShapes ==
  {<<a, i, b>> : a \in 1..MaxRank, i \in 1..MaxDim, b \in 1..MaxRank}
    \cup {<<a, i>> : a \in 1..MaxRank, i \in 1..MaxDim}

\* TensorTT with any sequence of up to MaxOrder cores; core k holds
\* k, k + 1, ...
TTArgs ==
  UNION {{TensorTT([k \in 1..N |-> arange(shps[k], k)]) :
            shps \in [1..N -> CoreShapes]} : N \in 1..MaxOrder}

InitBuild ==
  /\ rep = NoRep
  /\ args = NoRep
  /\ heap = <<>>
  /\ trace = <<>>
  /\ last = NoCall
  /\ prev = NoCall
  /\ calls = 0

\* The first call of a session constructs a representation from r: the object
\* exists when the constructor returns, and not when it raises.
Construct(r, class) ==
  /\ calls = 0
  /\ calls < MaxCalls
  /\ args' = r
  /\ rep' = IF construct(r) = "none" THEN r ELSE rep
  /\ last' = [op |-> class, recv |-> 0, ret |-> 0, inplace |-> FALSE,
              mode |-> -1, matrix |-> NoMatrix, pre |-> NoTensor,
              err |-> construct(r)]
  /\ prev' = last
  /\ calls' = calls + 1
  /\ UNCHANGED <<heap, trace>>

ConstructCPD == \E r \in CPDArgs : Construct(r, "TensorCPD")

ConstructTKD == \E r \in TKDArgs : Construct(r, "TensorTKD")

ConstructTT == \E r \in TTArgs : Construct(r, "TensorTT")

\* tensor_cpd.reconstruct, tensor_tkd.reconstruct on the object constructed.
ReconstructBuilt == rep.kind \in {"cpd", "tkd"} /\ Reconstruct

\* tensor_tt.reconstruct on the object constructed.
ReconstructTT == rep.kind = "tt" /\ Get("reconstruct", reconstruct_tt(rep))

NextBuild ==
  ConstructCPD \/ ConstructTKD \/ ConstructTT \/ ReconstructBuilt \/ ReconstructTT

SpecBuild == InitBuild /\ [][NextBuild]_vars

\* Some factor matrix of the arguments has a column count that is not the
\* length of the weights (CP), not the core's size along its mode (Tucker).
ColumnsMismatch ==
  \/ /\ args.kind = "cpd"
     /\ \E n \in 1..Len(args.fmat) : args.fmat[n].shape[2] /= Len(args.core_values)
  \/ /\ args.kind = "tkd"
     /\ \E n \in 1..Len(args.fmat) : args.fmat[n].shape[2] /= args.core.shape[n]

\* C11: constructing a CP representation with a factor matrix whose column
\* count is not the length of the weights, or a Tucker representation with a
\* factor matrix whose column count is not the core's size along its mode,
\* raises ShapeMismatchError: no representation object exists and nothing was
\* ever reconstructed from it.
C11_ShapeMismatch ==
  ColumnsMismatch
    => /\ rep = NoRep
       /\ last.op \in {"TensorCPD", "TensorTKD"}
       /\ last.err = "ShapeMismatchError"
       /\ heap = <<>>

\* The note's example: weights of length 4, the second factor matrix with 3
\* columns.
C11_Witness ==
  /\ args = mismatched_cpd
  /\ last.op = "TensorCPD" /\ last.err = "ShapeMismatchError"
  /\ rep = NoRep

\* The cores of the arguments of TensorTT.
Cores == args.core_values

AdjacentAgree ==
  \A k \in 1..(Len(Cores) - 1) :
    Cores[k].shape[Len(Cores[k].shape)] = Cores[k + 1].shape[1]

\* C12: a tensor train is accepted only when every core is 3-way, the last
\* dimension of G_k is the first dimension of G_{k+1} for every adjacent pair
\* and r_0 = r_N = 1; cores that disagree on an adjacent rank raise
\* ShapeMismatchError.
C12_TrainRanks ==
  args.kind = "tt"
    => /\ rep /= NoRep
            => /\ rep = args
               /\ \A k \in 1..Len(Cores) : Len(Cores[k].shape) = 3
               /\ AdjacentAgree
               /\ Cores[1].shape[1] = 1
               /\ Cores[Len(Cores)].shape[3] = 1
       /\ ~AdjacentAgree
            => rep = NoRep /\ last.op = "TensorTT" /\ last.err = "ShapeMismatchError"

\* Three 3-way cores with boundary ranks 1 whose first two agree on their
\* rank and whose last two do not.
C12_Witness ==
  /\ args.kind = "tt" /\ Len(Cores) = 3
  /\ \A k \in 1..3 : Len(Cores[k].shape) = 3
  /\ Cores[1].shape[1] = 1 /\ Cores[3].shape[3] = 1
  /\ Cores[1].shape[3] = Cores[2].shape[1]
  /\ Cores[2].shape[3] /= Cores[3].shape[1]
  /\ rep = NoRep /\ last.err = "ShapeMismatchError"

-----------------------------------------------------------------------------
(* reconstruct and the tensors it returns *)

\* The tensor trains that TensorTT accepts.
TTInputs == {r \in TTArgs : valid_tt(r)}

InitPure ==
  /\ rep \in CPDInputs \cup TKDInputs \cup TTInputs
  /\ args = NoRep
  /\ heap = <<>>
  /\ trace = <<>>
  /\ last = NoCall
  /\ prev = NoCall
  /\ calls = 0

\* reconstruct on the representation, and the Tensor methods on the tensors it
\* returned.
NextPure ==
  ReconstructBuilt \/ ReconstructTT \/ UnfoldStep \/ FoldStep \/ ModeNProductStep

SpecPure == InitPure /\ [][NextPure]_vars

\* Object o is a tensor reconstruct returned, with no call made on it since.
Untouched(o) == trace[o] = <<>>

====
